---- MODULE Spec2Model ----
\* A model of the region quadtree of src/src/lib.rs: the facade (Quadtree), its
\* borrowing iterators (Iter, Query, Regions, Values), the bulk operations
\* (modify*, extend, reset), and the index node / geometry they rest on.
EXTENDS Integers, Sequences, FiniteSets, TLC

\* ---------------------------------------------------------------------------
\* Bounds of the model.
\* ---------------------------------------------------------------------------
MaxDepth == 2
MaxCoord == 2
MaxSize == 2
MaxHandles == 2
MaxVal == 1
MaxExtend == 3
\* The width in bits of the usize the model counts with.
UsizeBits == 4
\* The width in bits of the signed coordinate type U (i8 in the tests of Point).
CoordBits == 6

\* The anchor handed to new_with_anchor.
RootAnchor == <<1, 1>>

Coords == 0..MaxCoord
Sizes == 1..MaxSize
Points == Coords \X Coords
\* AreaType<U> = ((U, U), (U, U)): an anchor and strictly positive dimensions.
Regions == Points \X (Sizes \X Sizes)
Vals == 0..MaxVal

RECURSIVE Pow2(_)
Pow2(n) == IF n = 0 THEN 1 ELSE 2 * Pow2(n - 1)

Last(s) == s[Len(s)]
Front(s) == SubSeq(s, 1, Len(s) - 1)
Range(s) == {s[i] : i \in 1..Len(s)}
Count(s, e) == Cardinality({i \in 1..Len(s) : s[i] = e})

\* ---------------------------------------------------------------------------
\* Geometry.
\* ---------------------------------------------------------------------------
\* U::min_value(), U::max_value() and the values U holds.
U_min_value == 0 - Pow2(CoordBits - 1)
U_max_value == Pow2(CoordBits - 1) - 1
U_values == Pow2(CoordBits)
representable(v) == U_min_value <= v /\ v <= U_max_value
\* What a release build leaves of a sum or difference that U cannot hold.
wrapping(v) == ((v - U_min_value) % U_values) + U_min_value

\* Point<U>: accessors, component-wise addition and subtraction. `+` and `-`
\* on U are unchecked: where the exact result is not representable a debug
\* build panics (add_overflows, sub_overflows) and a release build goes on
\* with the wrapped value (add, sub).
x(p) == p[1]

\* Point::y returning the first component.
y_returns_x(p) == p[1]

y(p) == p[2]

\* Point + Point adding the x components into both coordinates.
add_x_twice(p, q) == <<wrapping(x(p) + x(q)), wrapping(x(p) + x(q))>>

add(p, q) == <<wrapping(x(p) + x(q)), wrapping(y(p) + y(q))>>
add_overflows(p, q) == ~representable(x(p) + x(q)) \/ ~representable(y(p) + y(q))

\* Point - Point with the operands taken in the wrong order.
sub_reversed(p, q) == <<wrapping(x(q) - x(p)), wrapping(y(q) - y(p))>>

sub(p, q) == <<wrapping(x(p) - x(q)), wrapping(y(p) - y(q))>>
sub_overflows(p, q) == ~representable(x(p) - x(q)) \/ ~representable(y(p) - y(q))

\* Point::dir_towards with the strict and the non-strict comparison of the
\* first test exchanged.
dir_towards_ties_west(p, other) ==
    IF x(other) >= x(p) /\ y(other) < y(p) THEN "Northeast"
    ELSE IF x(other) <= x(p) /\ y(other) < y(p) THEN "Northwest"
    ELSE IF x(other) < x(p) /\ y(other) >= y(p) THEN "Southwest"
    ELSE "Southeast"

\* self is p; the result is a Quadrant.
dir_towards(p, other) ==
    IF x(other) > x(p) /\ y(other) <= y(p) THEN "Northeast"
    ELSE IF x(other) <= x(p) /\ y(other) < y(p) THEN "Northwest"
    ELSE IF x(other) < x(p) /\ y(other) >= y(p) THEN "Southwest"
    ELSE "Southeast"

\* Area<U> wraps an AreaType; inner() unwraps it.
AreaFrom(t) == [inner |-> t]
AreaInner(a) == a.inner
anchor_of(a) == a.inner[1]
width(a) == a.inner[2][1]
height(a) == a.inner[2][2]
\* The exclusive far corner anchor + (width, height), formed with Point
\* addition, and whether forming it overflows U.
far(a) == add(anchor_of(a), <<width(a), height(a)>>)
far_overflows(a) == add_overflows(anchor_of(a), <<width(a), height(a)>>)

\* other is wholly inside a.
Area_contains(a, other) ==
    /\ x(anchor_of(a)) <= x(anchor_of(other))
    /\ y(anchor_of(a)) <= y(anchor_of(other))
    /\ x(far(other)) <= x(far(a))
    /\ y(far(other)) <= y(far(a))

\* a and other share at least one coordinate cell.
Area_intersects(a, other) ==
    /\ x(anchor_of(a)) < x(far(other))
    /\ x(anchor_of(other)) < x(far(a))
    /\ y(anchor_of(a)) < y(far(other))
    /\ y(anchor_of(other)) < y(far(a))

\* ---------------------------------------------------------------------------
\* QTInner: the index. A tree is a function from node paths (sequences of
\* subquadrant indices, <<>> the root) to nodes.
\* ---------------------------------------------------------------------------
QTNode(region, d) ==
    [region |-> region, depth |-> d, kept_uuids |-> <<>>, subquadrants |-> FALSE]

QTInner_new(anchor, d) == (<<>> :> QTNode(AreaFrom(<<anchor, <<Pow2(d), Pow2(d)>>>>), d))

\* Quarter the region of node p into four equal children, one level lower.
expand_subquadrants_by_center(t, p) ==
    LET r == t[p].region
        a == anchor_of(r)
        hw == width(r) \div 2
        hh == height(r) \div 2
        c == add(a, <<hw, hh>>)
        child(an) == QTNode(AreaFrom(<<an, <<hw, hh>>>>), t[p].depth - 1)
        kids == (Append(p, 1) :> child(<<x(c), y(a)>>))
             @@ (Append(p, 2) :> child(a))
             @@ (Append(p, 3) :> child(c))
             @@ (Append(p, 4) :> child(<<x(a), y(c)>>))
    IN  kids @@ [t EXCEPT ![p].subquadrants = TRUE]

keep_uuid(t, p, uuid) == [t EXCEPT ![p].kept_uuids = Append(@, uuid)]

\* Push the handle down while exactly one child wholly contains the region.
RECURSIVE insert_uuid_at_region(_, _, _, _)
insert_uuid_at_region(t, p, req, uuid) ==
    IF t[p].depth = 0
    THEN keep_uuid(t, p, uuid)
    ELSE LET t2 == IF t[p].subquadrants THEN t ELSE expand_subquadrants_by_center(t, p)
             into == {i \in 1..4 : Area_contains(t2[Append(p, i)].region, req)}
         IN  IF Cardinality(into) = 1
             THEN insert_uuid_at_region(t2, Append(p, CHOOSE i \in into : TRUE), req, uuid)
             ELSE keep_uuid(t2, p, uuid)

\* Uuid::new_v4(): a handle never minted before, from the generator state g.
Uuid_new_v4(g) == [uuid |-> g, gen |-> g + 1]

\* Mint a handle, write the store, place the handle; nothing happens when the
\* region does not fit the root.
insert_val_at_region(t, st, g, req, val) ==
    IF Area_contains(t[<<>>].region, req)
    THEN LET m == Uuid_new_v4(g)
         IN  [inner |-> insert_uuid_at_region(t, <<>>, req, m.uuid),
              store |-> (m.uuid :> <<req, val>>) @@ st,
              gen |-> m.gen]
    ELSE [inner |-> t, store |-> st, gen |-> g]

\* Back to the just-created, childless node with the region and depth retained.
QTInner_reset(t) == (<<>> :> QTNode(t[<<>>].region, t[<<>>].depth))

\* ---------------------------------------------------------------------------
\* UuidIter: the full traversal of the index over an explicit node stack.
\* ---------------------------------------------------------------------------
None == [tag |-> "None"]
Panic == [tag |-> "Panic"]

UuidIter_new(t) == [uuid_stack |-> <<>>, qt_stack |-> <<<<>>>>]

RECURSIVE UuidIter_next(_, _)
UuidIter_next(t, it) ==
    IF it.uuid_stack # <<>>
    THEN [it |-> [it EXCEPT !.uuid_stack = Front(@)],
          out |-> [tag |-> "Some", uuid |-> Last(it.uuid_stack)]]
    ELSE IF it.qt_stack # <<>>
    THEN LET qt == Last(it.qt_stack)
             kids == IF t[qt].subquadrants
                     THEN [i \in 1..4 |-> Append(qt, i)]
                     ELSE <<>>
         IN  UuidIter_next(t, [uuid_stack |-> t[qt].kept_uuids,
                               qt_stack |-> Front(it.qt_stack) \o kids])
    ELSE [it |-> it, out |-> None]

\* UuidIter::new(&inner).collect()
RECURSIVE UuidIter_collect(_, _)
UuidIter_collect(t, it) ==
    LET r == UuidIter_next(t, it)
    IN  IF r.out.tag = "None" THEN <<>>
        ELSE <<r.out.uuid>> \o UuidIter_collect(t, r.it)

\* ---------------------------------------------------------------------------
\* Quadtree: the facade. self is [depth, inner, store, gen], gen being the
\* state of the handle generator.
\* ---------------------------------------------------------------------------
VARIABLES depth, inner, store, gen, lastOp, into_iter, yielded, call, handle_iter

vars == <<depth, inner, store, gen, lastOp, into_iter, yielded, call, handle_iter>>

Self == [depth |-> depth, inner |-> inner, store |-> store, gen |-> gen]

\* new_with_anchor building the index one level deeper than depth says.
new_with_anchor_deeper(anchor, d) ==
    [depth |-> d, inner |-> QTInner_new(anchor, d + 1), store |-> <<>>, gen |-> 1]

new_with_anchor(anchor, d) ==
    [depth |-> d, inner |-> QTInner_new(anchor, d), store |-> <<>>, gen |-> 1]

\* Quadtree::new
new(d) == new_with_anchor(<<0, 0>>, d)

anchor(self) == anchor_of(self.inner[<<>>].region)
qt_width(self) == width(self.inner[<<>>].region)
qt_height(self) == height(self.inner[<<>>].region)
qt_depth(self) == self.inner[<<>>].depth

len(self) == Cardinality(DOMAIN self.store)
is_empty(self) == DOMAIN self.store = {}

\* contains deciding by intersection with the root region.
contains_intersects(self, an, size) ==
    Area_intersects(self.inner[<<>>].region, AreaFrom(<<an, size>>))

contains(self, an, size) ==
    Area_contains(self.inner[<<>>].region, AreaFrom(<<an, size>>))

default_region_size == <<1, 1>>

with_inner(self, r) ==
    [self EXCEPT !.inner = r.inner, !.store = r.store, !.gen = r.gen]

\* insert with the anchor and the size taken in the wrong order.
insert_swapped(self, an, size, val) ==
    with_inner(self, insert_val_at_region(self.inner, self.store, self.gen,
                                          AreaFrom(<<size, an>>), val))

\* insert placing the handle in a copy of the index that is then dropped.
insert_unplaced(self, an, size, val) ==
    LET r == insert_val_at_region(self.inner, self.store, self.gen,
                                  AreaFrom(<<an, size>>), val)
    IN  [self EXCEPT !.store = r.store, !.gen = r.gen]

insert(self, an, size, val) ==
    with_inner(self, insert_val_at_region(self.inner, self.store, self.gen,
                                          AreaFrom(<<an, size>>), val))

insert_pt(self, an, val) ==
    with_inner(self, insert_val_at_region(self.inner, self.store, self.gen,
                                          AreaFrom(<<an, default_region_size>>), val))

\* reset without store.clear().
reset_keeps_store(self) ==
    [self EXCEPT !.inner = QTInner_reset(self.inner)]

\* reset without inner.reset().
reset_keeps_inner(self) ==
    [self EXCEPT !.store = <<>>]

reset(self) ==
    [self EXCEPT !.store = <<>>, !.inner = QTInner_reset(self.inner)]

\* The regions a filter closure of modify_region can be handed.
StoredAreas(self) == {self.store[h][1] : h \in DOMAIN self.store}

\* modify_region rebuilding the store from the entries that pass the filter.
modify_region_retains(self, filter, f) ==
    LET passing == {h \in DOMAIN self.store : filter[self.store[h][1]]}
    IN  [self EXCEPT !.store =
            [h \in passing |-> <<self.store[h][1], f[self.store[h][2]]>>]]

\* for uuid in relevant_uuids { if let Some((region, value)) = store.get_mut(uuid)
\*                              { if filter(*region) { modify(value) } } }
\* The closures filter and f are functions.
modify_region(self, filter, f) ==
    LET relevant_uuids == UuidIter_collect(self.inner, UuidIter_new(self.inner))
        st[i \in 0..Len(relevant_uuids)] ==
            IF i = 0 THEN self.store
            ELSE LET uuid == relevant_uuids[i]
                     prev == st[i - 1]
                 IN  IF uuid \in DOMAIN prev /\ filter[prev[uuid][1]]
                     THEN [prev EXCEPT ![uuid] = <<@[1], f[@[2]]>>]
                     ELSE prev
    IN  [self EXCEPT !.store = st[Len(relevant_uuids)]]

modify_all(self, f) ==
    modify_region(self, [a \in StoredAreas(self) |-> TRUE], f)

\* modify filtering by a.contains(query_region).
modify_contains(self, an, size, f) ==
    LET query_region == AreaFrom(<<an, size>>)
    IN  modify_region(self,
                      [a \in StoredAreas(self) |-> Area_contains(a, query_region)], f)

modify(self, an, size, f) ==
    LET query_region == AreaFrom(<<an, size>>)
    IN  modify_region(self,
                      [a \in StoredAreas(self) |-> Area_intersects(a, query_region)], f)

modify_pt(self, an, f) ==
    LET query_region == AreaFrom(<<an, default_region_size>>)
    IN  modify_region(self,
                      [a \in StoredAreas(self) |-> Area_intersects(a, query_region)], f)

\* extend leaving the loop at the first item that does not fit.
RECURSIVE extend_pts_stops(_, _)
extend_pts_stops(self, items) ==
    IF items = <<>> THEN self
    ELSE IF ~contains(self, Head(items)[1], default_region_size) THEN self
    ELSE extend_pts_stops(insert_pt(self, Head(items)[1], Head(items)[2]), Tail(items))

\* Extend<(PointType<U>, V)>: for (pt, val) in iter { self.insert_pt(pt, val) }
RECURSIVE extend_pts(_, _)
extend_pts(self, items) ==
    IF items = <<>> THEN self
    ELSE extend_pts(insert_pt(self, Head(items)[1], Head(items)[2]), Tail(items))

\* Extend<(AreaType<U>, V)>: for ((anchor, size), val) in iter { self.insert(..) }
RECURSIVE extend_areas(_, _)
extend_areas(self, items) ==
    IF items = <<>> THEN self
    ELSE extend_areas(insert(self, Head(items)[1][1], Head(items)[1][2], Head(items)[2]),
                      Tail(items))

\* ---------------------------------------------------------------------------
\* Iter, Regions, Values: the borrowing iterators over all entries.
\* ---------------------------------------------------------------------------
Iter_new(t) == [uuid_iter |-> UuidIter_new(t)]

Iter_next(self, it) ==
    LET r == UuidIter_next(self.inner, it.uuid_iter)
    IN  IF r.out.tag = "Some"
        THEN IF r.out.uuid \in DOMAIN self.store
             THEN LET e == self.store[r.out.uuid]
                  IN  [it |-> [uuid_iter |-> r.it],
                       out |-> [tag |-> "Some", uuid |-> r.out.uuid,
                                item |-> <<AreaInner(e[1]), e[2]>>]]
             ELSE [it |-> [uuid_iter |-> r.it], out |-> Panic]
        ELSE [it |-> [uuid_iter |-> r.it], out |-> None]

iter(self) == Iter_new(self.inner)

Regions_next(self, it) ==
    LET r == Iter_next(self, it)
    IN  IF r.out.tag = "Some"
        THEN [r EXCEPT !.out.item = r.out.item[1]]
        ELSE r

Values_next(self, it) ==
    LET r == Iter_next(self, it)
    IN  IF r.out.tag = "Some"
        THEN [r EXCEPT !.out.item = r.out.item[2]]
        ELSE r

\* ---------------------------------------------------------------------------
\* Query: the borrowing iterator over the entries intersecting a region.
\* ---------------------------------------------------------------------------
Query_new(query_region, t) ==
    [query_region |-> query_region, uuid_iter |-> UuidIter_new(t)]

\* Query::next testing query_region.contains(*region).
RECURSIVE Query_next_contains(_, _)
Query_next_contains(self, q) ==
    LET r == UuidIter_next(self.inner, q.uuid_iter)
        q2 == [q EXCEPT !.uuid_iter = r.it]
    IN  IF r.out.tag = "Some" /\ r.out.uuid \in DOMAIN self.store
        THEN LET e == self.store[r.out.uuid]
             IN  IF Area_contains(q.query_region, e[1])
                 THEN [it |-> q2,
                       out |-> [tag |-> "Some", uuid |-> r.out.uuid,
                                item |-> <<AreaInner(e[1]), e[2]>>]]
                 ELSE Query_next_contains(self, q2)
        ELSE [it |-> q2, out |-> None]

\* Query::next yielding every handle of the traversal.
Query_next_unfiltered(self, q) ==
    LET r == UuidIter_next(self.inner, q.uuid_iter)
        q2 == [q EXCEPT !.uuid_iter = r.it]
    IN  IF r.out.tag = "Some" /\ r.out.uuid \in DOMAIN self.store
        THEN LET e == self.store[r.out.uuid]
             IN  [it |-> q2,
                  out |-> [tag |-> "Some", uuid |-> r.out.uuid,
                           item |-> <<AreaInner(e[1]), e[2]>>]]
        ELSE [it |-> q2, out |-> None]

\* Query::next ending at the first entry that does not intersect.
Query_next_ends_early(self, q) ==
    LET r == UuidIter_next(self.inner, q.uuid_iter)
        q2 == [q EXCEPT !.uuid_iter = r.it]
    IN  IF r.out.tag = "Some" /\ r.out.uuid \in DOMAIN self.store
        THEN LET e == self.store[r.out.uuid]
             IN  IF Area_intersects(q.query_region, e[1])
                 THEN [it |-> q2,
                       out |-> [tag |-> "Some", uuid |-> r.out.uuid,
                                item |-> <<AreaInner(e[1]), e[2]>>]]
                 ELSE [it |-> q2, out |-> None]
        ELSE [it |-> q2, out |-> None]

RECURSIVE Query_next(_, _)
Query_next(self, q) ==
    LET r == UuidIter_next(self.inner, q.uuid_iter)
        q2 == [q EXCEPT !.uuid_iter = r.it]
    IN  IF r.out.tag = "Some" /\ r.out.uuid \in DOMAIN self.store
        THEN LET e == self.store[r.out.uuid]
             IN  IF Area_intersects(q.query_region, e[1])
                 THEN [it |-> q2,
                       out |-> [tag |-> "Some", uuid |-> r.out.uuid,
                                item |-> <<AreaInner(e[1]), e[2]>>]]
                 ELSE Query_next(self, q2)
        ELSE [it |-> q2, out |-> None]

query(self, an, size) == Query_new(AreaFrom(<<an, size>>), self.inner)

query_pt(self, an) == Query_new(AreaFrom(<<an, default_region_size>>), self.inner)

\* An iterator consumed to exhaustion: everything it yields before the end
\* marker, a failed expect() ending the sequence.
RECURSIVE Iter_all(_, _)
Iter_all(self, it) ==
    LET r == Iter_next(self, it)
    IN  IF r.out.tag = "None" THEN <<>>
        ELSE IF r.out.tag = "Panic" THEN <<r.out>>
        ELSE <<r.out>> \o Iter_all(self, r.it)

RECURSIVE Regions_all(_, _)
Regions_all(self, it) ==
    LET r == Regions_next(self, it)
    IN  IF r.out.tag = "None" THEN <<>>
        ELSE IF r.out.tag = "Panic" THEN <<r.out>>
        ELSE <<r.out>> \o Regions_all(self, r.it)

RECURSIVE Values_all(_, _)
Values_all(self, it) ==
    LET r == Values_next(self, it)
    IN  IF r.out.tag = "None" THEN <<>>
        ELSE IF r.out.tag = "Panic" THEN <<r.out>>
        ELSE <<r.out>> \o Values_all(self, r.it)

RECURSIVE Query_all(_, _)
Query_all(self, q) ==
    LET r == Query_next(self, q)
    IN  IF r.out.tag = "None" THEN <<>>
        ELSE <<r.out>> \o Query_all(self, r.it)

\* ---------------------------------------------------------------------------
\* IntoIter: the consuming iterator. It owns the index (tree, walked through
\* qt_stack) and the store, and counts what is left in remaining.
\* ---------------------------------------------------------------------------
\* a - b on usize: exact when it fits; otherwise the build decides between an
\* overflow panic (debug) and wrapping around (release).
usize_sub(a, b) ==
    IF a >= b
    THEN {[tag |-> "Ok", v |-> a - b]}
    ELSE {Panic, [tag |-> "Ok", v |-> a - b + Pow2(UsizeBits)]}

\* HashMap::remove_entry's effect on the map.
remove_entry(st, uuid) == [h \in DOMAIN st \ {uuid} |-> st[h]]

\* IntoIter::new starting the count at zero.
IntoIter_new_uncounted(qt, st) ==
    [uuid_stack |-> <<>>, qt_stack |-> <<<<>>>>, remaining |-> 0,
     store |-> st, tree |-> qt]

IntoIter_new(qt, st) ==
    [uuid_stack |-> <<>>, qt_stack |-> <<<<>>>>, remaining |-> Cardinality(DOMAIN st),
     store |-> st, tree |-> qt]

\* IntoIter::next pushing no subquadrants.
RECURSIVE IntoIter_next_shallow(_)
IntoIter_next_shallow(it) ==
    IF it.uuid_stack # <<>>
    THEN LET uuid == Last(it.uuid_stack)
             popped == [it EXCEPT !.uuid_stack = Front(@)]
         IN  UNION {IF r.tag = "Panic"
                    THEN {[it |-> popped, out |-> Panic]}
                    ELSE IF uuid \in DOMAIN it.store
                    THEN {[it |-> [popped EXCEPT !.remaining = r.v,
                                                 !.store = remove_entry(@, uuid)],
                           out |-> [tag |-> "Some", uuid |-> uuid,
                                    item |-> <<AreaInner(it.store[uuid][1]),
                                               it.store[uuid][2]>>]]}
                    ELSE {[it |-> [popped EXCEPT !.remaining = r.v], out |-> Panic]}
                    : r \in usize_sub(it.remaining, 1)}
    ELSE IF it.qt_stack # <<>>
    THEN LET qt == Last(it.qt_stack)
         IN  IntoIter_next_shallow([it EXCEPT !.uuid_stack = @ \o it.tree[qt].kept_uuids,
                                              !.qt_stack = Front(@)])
    ELSE {[it |-> it, out |-> None]}

\* The set of outcomes of one call of next(): the iterator after it and what
\* it returned.
RECURSIVE IntoIter_next(_)
IntoIter_next(it) ==
    IF it.uuid_stack # <<>>
    THEN LET uuid == Last(it.uuid_stack)
             popped == [it EXCEPT !.uuid_stack = Front(@)]
         IN  UNION {IF r.tag = "Panic"
                    THEN {[it |-> popped, out |-> Panic]}
                    ELSE IF uuid \in DOMAIN it.store
                    THEN {[it |-> [popped EXCEPT !.remaining = r.v,
                                                 !.store = remove_entry(@, uuid)],
                           out |-> [tag |-> "Some", uuid |-> uuid,
                                    item |-> <<AreaInner(it.store[uuid][1]),
                                               it.store[uuid][2]>>]]}
                    ELSE {[it |-> [popped EXCEPT !.remaining = r.v], out |-> Panic]}
                    : r \in usize_sub(it.remaining, 1)}
    ELSE IF it.qt_stack # <<>>
    THEN LET qt == Last(it.qt_stack)
             kids == IF it.tree[qt].subquadrants
                     THEN [i \in 1..4 |-> Append(qt, i)]
                     ELSE <<>>
         IN  IntoIter_next([it EXCEPT !.uuid_stack = @ \o it.tree[qt].kept_uuids,
                                      !.qt_stack = Front(@) \o kids])
    ELSE {[it |-> it, out |-> None]}

size_hint(it) == <<it.remaining, [tag |-> "Some", v |-> it.remaining]>>

\* impl IntoIterator for Quadtree
into_iter_of(self) == IntoIter_new(self.inner, self.store)

\* ---------------------------------------------------------------------------
\* HandleIter: the traversal of the index by handle_iter.rs. It borrows the
\* index t; qt_stack holds node paths, front first, and handle_stack the
\* handles waiting to be yielded, front first.
\* ---------------------------------------------------------------------------
Traversal == {"Overlapping", "Strict"}

\* QTInner::handles()
handles(t, qt) == t[qt].kept_uuids

\* QTInner::subquadrants(), in the order of the array; <<>> for Option::None.
subquadrants(t, qt) ==
    IF t[qt].subquadrants THEN [i \in 1..4 |-> Append(qt, i)] ELSE <<>>

\* QTInner::region()
region(t, qt) == t[qt].region

HandleIter_new(qt, search_area) ==
    [search_area |-> search_area, handle_stack |-> <<>>, qt_stack |-> <<qt>>,
     visited |-> {}]

\* descend_recurse_step pushing the subquadrant without clearing the stack.
RECURSIVE descend_recurse_step_keeps_parent(_, _, _, _)
descend_recurse_step_keeps_parent(t, it, req, traversal_method) ==
    IF Len(it.qt_stack) # 1
    THEN Panic
    ELSE LET qt == Last(it.qt_stack)
             inside(sq) == Area_contains(region(t, sq), req)
             into == SelectSeq(subquadrants(t, qt), inside)
         IN  IF ~Area_contains(region(t, qt), req) \/ into = <<>>
             THEN [tag |-> "Ok", it |-> it]
             ELSE descend_recurse_step_keeps_parent(t,
                      [it EXCEPT !.qt_stack = Append(@, Head(into))],
                      req, traversal_method)

\* descend_recurse_step never collecting the handles met on the way.
RECURSIVE descend_recurse_step_collects_nothing(_, _, _, _)
descend_recurse_step_collects_nothing(t, it, req, traversal_method) ==
    IF Len(it.qt_stack) # 1
    THEN Panic
    ELSE LET qt == Last(it.qt_stack)
             inside(sq) == Area_contains(region(t, sq), req)
             into == SelectSeq(subquadrants(t, qt), inside)
         IN  IF ~Area_contains(region(t, qt), req) \/ into = <<>>
             THEN [tag |-> "Ok", it |-> it]
             ELSE descend_recurse_step_collects_nothing(t,
                      [it EXCEPT !.qt_stack = <<Head(into)>>],
                      req, traversal_method)

\* descend_recurse_step collecting the handles of the node it stops at, too.
RECURSIVE descend_recurse_step_collects_target(_, _, _, _)
descend_recurse_step_collects_target(t, it, req, traversal_method) ==
    IF Len(it.qt_stack) # 1
    THEN Panic
    ELSE LET qt == Last(it.qt_stack)
             inside(sq) == Area_contains(region(t, sq), req)
             into == SelectSeq(subquadrants(t, qt), inside)
             collected == IF traversal_method = "Overlapping"
                          THEN [it EXCEPT !.handle_stack = @ \o handles(t, qt)]
                          ELSE it
         IN  IF ~Area_contains(region(t, qt), req)
             THEN [tag |-> "Ok", it |-> it]
             ELSE IF into = <<>>
             THEN [tag |-> "Ok", it |-> collected]
             ELSE descend_recurse_step_collects_target(t,
                      [collected EXCEPT !.qt_stack = <<Head(into)>>],
                      req, traversal_method)

\* descend_recurse_step stopping one level below the root.
descend_recurse_step_one_level(t, it, req, traversal_method) ==
    IF Len(it.qt_stack) # 1
    THEN Panic
    ELSE LET qt == Last(it.qt_stack)
             inside(sq) == Area_contains(region(t, sq), req)
             into == SelectSeq(subquadrants(t, qt), inside)
         IN  IF ~Area_contains(region(t, qt), req) \/ into = <<>>
             THEN [tag |-> "Ok", it |-> it]
             ELSE [tag |-> "Ok",
                   it |-> [it EXCEPT
                       !.handle_stack = IF traversal_method = "Overlapping"
                                        THEN @ \o handles(t, qt) ELSE @,
                       !.qt_stack = <<Head(into)>>]]

\* Panic when an assertion fails; otherwise the iterator with the sole node of
\* qt_stack replaced, level by level, by the first subquadrant whose region
\* contains req, the handles of each node left behind collected for
\* Traversal::Overlapping.
RECURSIVE descend_recurse_step(_, _, _, _)
descend_recurse_step(t, it, req, traversal_method) ==
    IF Len(it.qt_stack) # 1
    THEN Panic
    ELSE LET qt == Last(it.qt_stack)
             inside(sq) == Area_contains(region(t, sq), req)
             into == SelectSeq(subquadrants(t, qt), inside)
         IN  IF ~Area_contains(region(t, qt), req)
             THEN [tag |-> "Ok", it |-> it]
             ELSE IF ~Area_contains(region(t, qt), req)
             THEN Panic
             ELSE IF into = <<>>
             THEN [tag |-> "Ok", it |-> it]
             ELSE LET collected ==
                          IF traversal_method = "Overlapping"
                          THEN [it EXCEPT !.handle_stack = @ \o handles(t, qt)]
                          ELSE it
                  IN  IF Len(collected.qt_stack) # 1
                      THEN Panic
                      ELSE descend_recurse_step(t,
                               [collected EXCEPT !.qt_stack = <<Head(into)>>],
                               req, traversal_method)

query_optimization(t, it, req, traversal_method) ==
    IF Len(it.qt_stack) # 1 \/ it.handle_stack # <<>> \/ it.visited # {}
    THEN Panic
    ELSE descend_recurse_step(t, it, req, traversal_method)

\* HandleIter::next walking only the subquadrants inside search_area.
RECURSIVE HandleIter_next_contained(_, _)
HandleIter_next_contained(t, it) ==
    IF it.handle_stack # <<>>
    THEN LET handle == Head(it.handle_stack)
             popped == [it EXCEPT !.handle_stack = Tail(@)]
         IN  IF handle \notin it.visited
             THEN [it |-> [popped EXCEPT !.visited = @ \cup {handle}],
                   out |-> [tag |-> "Some", handle |-> handle]]
             ELSE HandleIter_next_contained(t, popped)
    ELSE IF it.qt_stack # <<>>
    THEN LET qt == Head(it.qt_stack)
             wanted(sq) == Area_contains(it.search_area, region(t, sq))
             walked == [it EXCEPT !.qt_stack =
                           Tail(@) \o SelectSeq(subquadrants(t, qt), wanted)]
         IN  IF Len(handles(t, qt)) = 0
             THEN HandleIter_next_contained(t, walked)
             ELSE IF Len(handles(t, qt)) = 1
             THEN IF handles(t, qt)[1] \notin it.visited
                  THEN [it |-> [walked EXCEPT !.visited = @ \cup {handles(t, qt)[1]}],
                        out |-> [tag |-> "Some", handle |-> handles(t, qt)[1]]]
                  ELSE HandleIter_next_contained(t, walked)
             ELSE HandleIter_next_contained(t, [walked EXCEPT !.handle_stack = @ \o handles(t, qt)])
    ELSE [it |-> it, out |-> None]

\* HandleIter::next pushing every subquadrant.
RECURSIVE HandleIter_next_unpruned(_, _)
HandleIter_next_unpruned(t, it) ==
    IF it.handle_stack # <<>>
    THEN LET handle == Head(it.handle_stack)
             popped == [it EXCEPT !.handle_stack = Tail(@)]
         IN  IF handle \notin it.visited
             THEN [it |-> [popped EXCEPT !.visited = @ \cup {handle}],
                   out |-> [tag |-> "Some", handle |-> handle]]
             ELSE HandleIter_next_unpruned(t, popped)
    ELSE IF it.qt_stack # <<>>
    THEN LET qt == Head(it.qt_stack)
             wanted(sq) == TRUE
             walked == [it EXCEPT !.qt_stack =
                           Tail(@) \o SelectSeq(subquadrants(t, qt), wanted)]
         IN  IF Len(handles(t, qt)) = 0
             THEN HandleIter_next_unpruned(t, walked)
             ELSE IF Len(handles(t, qt)) = 1
             THEN IF handles(t, qt)[1] \notin it.visited
                  THEN [it |-> [walked EXCEPT !.visited = @ \cup {handles(t, qt)[1]}],
                        out |-> [tag |-> "Some", handle |-> handles(t, qt)[1]]]
                  ELSE HandleIter_next_unpruned(t, walked)
             ELSE HandleIter_next_unpruned(t, [walked EXCEPT !.handle_stack = @ \o handles(t, qt)])
    ELSE [it |-> it, out |-> None]

\* HandleIter::next yielding whatever it meets and leaving visited alone.
RECURSIVE HandleIter_next_unseen(_, _)
HandleIter_next_unseen(t, it) ==
    IF it.handle_stack # <<>>
    THEN [it |-> [it EXCEPT !.handle_stack = Tail(@)],
          out |-> [tag |-> "Some", handle |-> Head(it.handle_stack)]]
    ELSE IF it.qt_stack # <<>>
    THEN LET qt == Head(it.qt_stack)
             wanted(sq) == Area_intersects(region(t, sq), it.search_area)
             walked == [it EXCEPT !.qt_stack =
                           Tail(@) \o SelectSeq(subquadrants(t, qt), wanted)]
         IN  HandleIter_next_unseen(t, [walked EXCEPT !.handle_stack = @ \o handles(t, qt)])
    ELSE [it |-> it, out |-> None]

\* HandleIter::next taking the node at the back of qt_stack.
RECURSIVE HandleIter_next_from_back(_, _)
HandleIter_next_from_back(t, it) ==
    IF it.handle_stack # <<>>
    THEN LET handle == Head(it.handle_stack)
             popped == [it EXCEPT !.handle_stack = Tail(@)]
         IN  IF handle \notin it.visited
             THEN [it |-> [popped EXCEPT !.visited = @ \cup {handle}],
                   out |-> [tag |-> "Some", handle |-> handle]]
             ELSE HandleIter_next_from_back(t, popped)
    ELSE IF it.qt_stack # <<>>
    THEN LET qt == Last(it.qt_stack)
             wanted(sq) == Area_intersects(region(t, sq), it.search_area)
             walked == [it EXCEPT !.qt_stack =
                           Front(@) \o SelectSeq(subquadrants(t, qt), wanted)]
         IN  HandleIter_next_from_back(t, [walked EXCEPT !.handle_stack = @ \o handles(t, qt)])
    ELSE [it |-> it, out |-> None]

\* HandleIter::next returning the end marker as soon as no handle waits.
HandleIter_next_ends_early(t, it) ==
    IF it.handle_stack # <<>>
    THEN [it |-> [it EXCEPT !.handle_stack = Tail(@),
                            !.visited = @ \cup {Head(it.handle_stack)}],
          out |-> [tag |-> "Some", handle |-> Head(it.handle_stack)]]
    ELSE IF it.qt_stack # <<>> /\ handles(t, Head(it.qt_stack)) # <<>>
    THEN LET qt == Head(it.qt_stack)
             wanted(sq) == Area_intersects(region(t, sq), it.search_area)
         IN  [it |-> [it EXCEPT !.qt_stack = Tail(@) \o SelectSeq(subquadrants(t, qt), wanted),
                                !.handle_stack = Tail(handles(t, qt)),
                                !.visited = @ \cup {handles(t, qt)[1]}],
              out |-> [tag |-> "Some", handle |-> handles(t, qt)[1]]]
    ELSE [it |-> it, out |-> None]

\* One call of next(): the iterator after it and what it returned. Buffered
\* handles come first; then nodes are taken from the front of qt_stack, each
\* pushing at the back its subquadrants that intersect search_area.
\* HandleIter::next starting over from the root once both stacks are empty.
RECURSIVE HandleIter_next_restarts(_, _)
HandleIter_next_restarts(t, it) ==
    IF it.handle_stack # <<>>
    THEN LET handle == Head(it.handle_stack)
             popped == [it EXCEPT !.handle_stack = Tail(@)]
         IN  IF handle \notin it.visited
             THEN [it |-> [popped EXCEPT !.visited = @ \cup {handle}],
                   out |-> [tag |-> "Some", handle |-> handle]]
             ELSE HandleIter_next_restarts(t, popped)
    ELSE IF it.qt_stack # <<>>
    THEN LET qt == Head(it.qt_stack)
             wanted(sq) == Area_intersects(region(t, sq), it.search_area)
             walked == [it EXCEPT !.qt_stack =
                           Tail(@) \o SelectSeq(subquadrants(t, qt), wanted)]
         IN  IF Len(handles(t, qt)) = 0
             THEN HandleIter_next_restarts(t, walked)
             ELSE IF Len(handles(t, qt)) = 1
             THEN IF handles(t, qt)[1] \notin it.visited
                  THEN [it |-> [walked EXCEPT !.visited = @ \cup {handles(t, qt)[1]}],
                        out |-> [tag |-> "Some", handle |-> handles(t, qt)[1]]]
                  ELSE HandleIter_next_restarts(t, walked)
             ELSE HandleIter_next_restarts(t, [walked EXCEPT !.handle_stack = @ \o handles(t, qt)])
    ELSE [it |-> [it EXCEPT !.qt_stack = <<<<>>>>, !.visited = {}], out |-> None]

RECURSIVE HandleIter_next(_, _)
HandleIter_next(t, it) ==
    IF it.handle_stack # <<>>
    THEN LET handle == Head(it.handle_stack)
             popped == [it EXCEPT !.handle_stack = Tail(@)]
         IN  IF handle \notin it.visited
             THEN [it |-> [popped EXCEPT !.visited = @ \cup {handle}],
                   out |-> [tag |-> "Some", handle |-> handle]]
             ELSE HandleIter_next(t, popped)
    ELSE IF it.qt_stack # <<>>
    THEN LET qt == Head(it.qt_stack)
             wanted(sq) == Area_intersects(region(t, sq), it.search_area)
             walked == [it EXCEPT !.qt_stack =
                           Tail(@) \o SelectSeq(subquadrants(t, qt), wanted)]
         IN  IF Len(handles(t, qt)) = 0
             THEN HandleIter_next(t, walked)
             ELSE IF Len(handles(t, qt)) = 1
             THEN IF handles(t, qt)[1] \notin it.visited
                  THEN [it |-> [walked EXCEPT !.visited = @ \cup {handles(t, qt)[1]}],
                        out |-> [tag |-> "Some", handle |-> handles(t, qt)[1]]]
                  ELSE HandleIter_next(t, walked)
             ELSE HandleIter_next(t, [walked EXCEPT !.handle_stack = @ \o handles(t, qt)])
    ELSE [it |-> it, out |-> None]

\* impl Iterator for HandleIter: size_hint
HandleIter_size_hint(it) == <<0, None>>

\* ---------------------------------------------------------------------------
\* The state machine: one action per mutating operation of the facade. Here
\* the quadtree is never given away to a consuming iterator (into_iter) and no
\* geometry function is called on its own (call).
\* ---------------------------------------------------------------------------
Becomes(q, op) ==
    /\ depth' = q.depth
    /\ inner' = q.inner
    /\ store' = q.store
    /\ gen' = q.gen
    /\ lastOp' = op
    /\ UNCHANGED <<into_iter, yielded, call, handle_iter>>

\* What the last call was: its kind and, for an insert or extend, whether each
\* given region passed contains(); for a modify, whether the region of each
\* handle minted so far passed the filter.
Op(name, fit) == [op |-> name, fit |-> fit]

Passed(self, query_region) ==
    [h \in 1..(self.gen - 1) |->
        h \in DOMAIN self.store /\ Area_intersects(self.store[h][1], query_region)]

\* The closure handed to modify*: |v| *v += 1.
Inc == [v \in Int |-> v + 1]

InBounds(q) ==
    /\ q.gen <= MaxHandles + 1
    /\ \A h \in DOMAIN q.store : q.store[h][2] <= MaxVal

\* The sequences handed to extend: MaxExtend items, each a point (or a region)
\* on the diagonal just outside or just inside the root's corner.
SeqsOf(S, n) == [1..n -> S]
CornerPoints == {<<x(RootAnchor) - 1, y(RootAnchor) - 1>>, RootAnchor}
PointItems == SeqsOf(CornerPoints \X {0}, MaxExtend)
AreaItems == SeqsOf({<<<<p, default_region_size>>, MaxVal>> : p \in CornerPoints}, MaxExtend)

Init ==
    \E d \in 0..MaxDepth :
        LET q == new_with_anchor(RootAnchor, d)
        IN  /\ depth = q.depth
            /\ inner = q.inner
            /\ store = q.store
            /\ gen = q.gen
            /\ lastOp = Op("new", <<>>)
            /\ into_iter = None
            /\ yielded = <<>>
            /\ call = None
            /\ handle_iter = None

Insert ==
    \E r \in Regions, v \in Vals :
        \E q \in {insert(Self, r[1], r[2], v)} :
            /\ InBounds(q)
            /\ Becomes(q, Op("insert", <<contains(Self, r[1], r[2])>>))

InsertPt ==
    \E p \in Points, v \in Vals :
        \E q \in {insert_pt(Self, p, v)} :
            /\ InBounds(q)
            /\ Becomes(q, Op("insert", <<contains(Self, p, default_region_size)>>))

ExtendPts ==
    \E items \in PointItems :
        \E q \in {extend_pts(Self, items)} :
            /\ InBounds(q)
            /\ Becomes(q, Op("extend",
                             [i \in 1..Len(items) |->
                                 contains(Self, items[i][1], default_region_size)]))

ExtendAreas ==
    \E items \in AreaItems :
        \E q \in {extend_areas(Self, items)} :
            /\ InBounds(q)
            /\ Becomes(q, Op("extend",
                             [i \in 1..Len(items) |->
                                 contains(Self, items[i][1][1], items[i][1][2])]))

Modify ==
    \E r \in Regions :
        \E q \in {modify(Self, r[1], r[2], Inc)} :
            /\ InBounds(q)
            /\ Becomes(q, Op("modify", Passed(Self, AreaFrom(r))))

ModifyPt ==
    \E p \in Points :
        \E q \in {modify_pt(Self, p, Inc)} :
            /\ InBounds(q)
            /\ Becomes(q, Op("modify", Passed(Self, AreaFrom(<<p, default_region_size>>))))

ModifyAll ==
    \E q \in {modify_all(Self, Inc)} :
        /\ InBounds(q)
        /\ Becomes(q, Op("modify", [h \in 1..(gen - 1) |-> h \in DOMAIN store]))

Reset == Becomes(reset(Self), Op("reset", <<>>))

Next ==
    \/ Insert
    \/ InsertPt
    \/ ExtendPts
    \/ ExtendAreas
    \/ Modify
    \/ ModifyPt
    \/ ModifyAll
    \/ Reset

Spec == Init /\ [][Next]_vars

\* ---------------------------------------------------------------------------
\* Consuming iteration: a quadtree filled by one extend is given away to
\* into_iter() and next() is called on the iterator until it panics, and on
\* after the end marker.
\* ---------------------------------------------------------------------------
FilledBy == SeqsOf(Regions \X Vals, MaxHandles)

IntoInit ==
    \E d \in 0..MaxDepth, items \in FilledBy :
        LET q == extend_areas(new_with_anchor(RootAnchor, d), items)
        IN  /\ depth = q.depth
            /\ inner = q.inner
            /\ store = q.store
            /\ gen = q.gen
            /\ lastOp = Op("extend", <<>>)
            /\ into_iter = None
            /\ yielded = <<>>
            /\ call = None
            /\ handle_iter = None

\* depth, inner, store keep what the quadtree held when it was given away.
IntoIterStart ==
    /\ into_iter = None
    /\ into_iter' = into_iter_of(Self)
    /\ yielded' = <<>>
    /\ lastOp' = Op("into_iter", <<>>)
    /\ UNCHANGED <<depth, inner, store, gen, call, handle_iter>>

IntoIterNext ==
    /\ into_iter # None
    /\ lastOp # Op("next", <<"Panic">>)
    /\ \E r \in IntoIter_next(into_iter) :
          /\ into_iter' = r.it
          /\ yielded' = IF r.out.tag = "Some" THEN Append(yielded, r.out) ELSE yielded
          /\ lastOp' = Op("next", <<r.out.tag>>)
    /\ UNCHANGED <<depth, inner, store, gen, call, handle_iter>>

IntoNext ==
    \/ IntoIterStart
    \/ IntoIterNext

SpecInto == IntoInit /\ [][IntoNext]_vars

\* ---------------------------------------------------------------------------
\* Geometry called on its own: Area::contains, Area::intersects,
\* Point::dir_towards, Point + Point and Point - Point, each applied once to
\* arguments drawn from the sets below. call records the function, its
\* arguments and what the call came to.
\* ---------------------------------------------------------------------------
Ok(v) == [tag |-> "Ok", v |-> v]
Called(fn, args, out) == [fn |-> fn, args |-> args, out |-> out]

\* Coordinates around zero, next to it, and at both ends of U.
SignedCoords == (0 - MaxCoord)..MaxCoord
NearCoords == (0 - MaxCoord - 1)..(MaxCoord + 1)
EdgeCoords == {U_min_value, 0 - 1, 0, 1, U_max_value}
\* Rectangles near zero and rectangles whose far edge reaches or passes
\* U::max_value().
HighCoords == (U_max_value - MaxSize)..U_max_value
GeomAreas == {AreaFrom(<<p, size>>) :
                 p \in (Coords \cup HighCoords) \X (Coords \cup HighCoords),
                 size \in Sizes \X Sizes}

\* What a call comes to: its value, or, when forming a far edge, a sum or a
\* difference overflows, either the panic of a debug build or the value a
\* release build computes from the wrapped numbers.
Outcomes(overflows, v) == IF overflows THEN {Panic, Ok(v)} ELSE {Ok(v)}

GeomInit ==
    LET q == new_with_anchor(RootAnchor, 0)
    IN  /\ depth = q.depth
        /\ inner = q.inner
        /\ store = q.store
        /\ gen = q.gen
        /\ lastOp = Op("new", <<>>)
        /\ into_iter = None
        /\ yielded = <<>>
        /\ call = None
        /\ handle_iter = None

Returns(fn, args, outs) ==
    /\ \E out \in outs : call' = Called(fn, args, out)
    /\ UNCHANGED <<depth, inner, store, gen, lastOp, into_iter, yielded, handle_iter>>

\* Each call is made from the state no call has been made in.
CallContains ==
    /\ call = None
    /\ \E a \in GeomAreas, b \in GeomAreas :
          Returns("contains", <<a, b>>,
                  Outcomes(far_overflows(a) \/ far_overflows(b), Area_contains(a, b)))

CallIntersects ==
    /\ call = None
    /\ \E a \in GeomAreas, b \in GeomAreas :
          Returns("intersects", <<a, b>>,
                  Outcomes(far_overflows(a) \/ far_overflows(b), Area_intersects(a, b)))

CallDirTowards ==
    /\ call = None
    /\ \E p \in SignedCoords \X SignedCoords, other \in NearCoords \X NearCoords :
          Returns("dir_towards", <<p, other>>, {Ok(dir_towards(p, other))})

CallAdd ==
    /\ call = None
    /\ \E p \in EdgeCoords \X EdgeCoords, q \in EdgeCoords \X EdgeCoords :
          Returns("add", <<p, q>>, Outcomes(add_overflows(p, q), add(p, q)))

CallSub ==
    /\ call = None
    /\ \E p \in EdgeCoords \X EdgeCoords, q \in EdgeCoords \X EdgeCoords :
          Returns("sub", <<p, q>>, Outcomes(sub_overflows(p, q), sub(p, q)))

GeomNext ==
    \/ CallContains
    \/ CallIntersects
    \/ CallDirTowards
    \/ CallAdd
    \/ CallSub

SpecGeom == GeomInit /\ [][GeomNext]_vars

\* ---------------------------------------------------------------------------
\* Traversal by handle: a quadtree made by new(depth) and filled by one extend
\* is walked by one HandleIter. query_optimization may be called on the
\* iterator at any time, once; next() is called until the end marker, and on
\* after it. A failed assertion ends the run.
\* ---------------------------------------------------------------------------
HandleFilledBy == SeqsOf(Regions \X {MaxVal}, MaxHandles)

\* The regions asked for: the squares anchored on the diagonal.
QueryRegions == {AreaFrom(<<<<c, c>>, <<s, s>>>>) : c \in Coords, s \in Sizes}

\* The requests of query_optimization for an iterator made over search_area:
\* the same region, as a query passes it, or a region inside it.
Requests(search_area) == {req \in QueryRegions : Area_contains(search_area, req)}

\* The quadtrees walked: new(depth) followed by one extend.
FilledQuadtrees ==
    {extend_areas(new(d), items) : d \in 0..MaxDepth, items \in HandleFilledBy}

HandleInit ==
    \E q \in FilledQuadtrees :
        /\ depth = q.depth
        /\ inner = q.inner
        /\ store = q.store
        /\ gen = q.gen
        /\ lastOp = Op("extend", <<>>)
        /\ into_iter = None
        /\ yielded = <<>>
        /\ call = None
        /\ handle_iter = None

HandleIterNew ==
    /\ handle_iter = None
    /\ into_iter = None
    /\ \E search_area \in QueryRegions :
          handle_iter' = HandleIter_new(<<>>, search_area)
    /\ lastOp' = Op("new", <<>>)
    /\ UNCHANGED <<depth, inner, store, gen, into_iter, yielded, call>>

QueryOptimization ==
    /\ handle_iter # None
    /\ call = None
    /\ \E req \in Requests(handle_iter.search_area), traversal_method \in Traversal :
          LET r == query_optimization(inner, handle_iter, req, traversal_method)
          IN  /\ call' = Called("query_optimization", <<req, traversal_method>>, r.tag)
              /\ handle_iter' = IF r.tag = "Ok" THEN r.it ELSE handle_iter
              /\ lastOp' = Op("query_optimization", <<r.tag>>)
    /\ UNCHANGED <<depth, inner, store, gen, into_iter, yielded>>

HandleIterNext ==
    /\ handle_iter # None
    /\ lastOp # Op("query_optimization", <<"Panic">>)
    /\ LET r == HandleIter_next(inner, handle_iter)
       IN  /\ handle_iter' = r.it
           /\ yielded' = IF r.out.tag = "Some" THEN Append(yielded, r.out.handle) ELSE yielded
           /\ lastOp' = Op("next", <<r.out.tag>>)
    /\ UNCHANGED <<depth, inner, store, gen, into_iter, call>>

HandleNext ==
    \/ HandleIterNew
    \/ QueryOptimization
    \/ HandleIterNext

SpecHandle == HandleInit /\ [][HandleNext]_vars

\* ---------------------------------------------------------------------------
\* The traversals run to their end: a quadtree made by new(depth) is filled by
\* one extend and then either walked by a HandleIter or given away to
\* into_iter(), and the caller goes on calling next() while the call changes
\* anything.
\* ---------------------------------------------------------------------------
TraversalsInit ==
    \E d \in 0..MaxDepth :
        LET q == new(d)
        IN  /\ depth = q.depth
            /\ inner = q.inner
            /\ store = q.store
            /\ gen = q.gen
            /\ lastOp = Op("new", <<>>)
            /\ into_iter = None
            /\ yielded = <<>>
            /\ call = None
            /\ handle_iter = None

Fill ==
    /\ lastOp = Op("new", <<>>)
    /\ handle_iter = None
    /\ into_iter = None
    /\ \E items \in HandleFilledBy :
          Becomes(extend_areas(Self, items), Op("extend", <<>>))

IntoIterOfFilled ==
    /\ handle_iter = None
    /\ IntoIterStart

TraversalsNext ==
    \/ Fill
    \/ HandleIterNew
    \/ QueryOptimization
    \/ HandleIterNext
    \/ IntoIterOfFilled
    \/ IntoIterNext

SpecTraversals ==
    /\ TraversalsInit
    /\ [][TraversalsNext]_vars
    /\ WF_vars(HandleIterNext)
    /\ WF_vars(IntoIterNext)

\* ---------------------------------------------------------------------------
\* The vocabulary of the properties: rectangles as sets of coordinate cells.
\* ---------------------------------------------------------------------------
\* The cells of the half-open rectangle [x, x + w) x [y, y + h) of an AreaType.
CellsOf(r) ==
    {<<i, j>> : i \in r[1][1]..(r[1][1] + r[2][1] - 1),
                j \in r[1][2]..(r[1][2] + r[2][2] - 1)}

\* The root square [RootAnchor, RootAnchor + (2^depth, 2^depth)).
RootCells == CellsOf(<<RootAnchor, <<Pow2(depth), Pow2(depth)>>>>)

Fits(r) == CellsOf(r) \subseteq RootCells
Overlaps(r, u) == CellsOf(r) \cap CellsOf(u) # {}

\* The stored (region, value) pair of handle h, as the iterators hand it out.
Entry(self, h) == <<AreaInner(self.store[h][1]), self.store[h][2]>>

\* The handles and the items of what an iterator yielded.
UuidsOf(outs) == [i \in 1..Len(outs) |-> IF outs[i].tag = "Some" THEN outs[i].uuid ELSE 0]
ItemsOf(outs) == {outs[i].item : i \in {k \in 1..Len(outs) : outs[k].tag = "Some"}}

\* Everything query(r) and iter() yield in the current state.
QueryOf(self, r) == Query_all(self, query(self, r[1], r[2]))
IterOf(self) == Iter_all(self, iter(self))

\* The nodes that keep handle h.
KeptAt(self, h) == {p \in DOMAIN self.inner : h \in Range(self.inner[p].kept_uuids)}

\* ---------------------------------------------------------------------------
\* Properties.
\* ---------------------------------------------------------------------------

\* C1: in every state, an insert(anchor, size, value) of a region wholly inside
\* the root region grows len() by exactly one, and a following iter(), and a
\* following query over that region, yield a pair equal to (region, value).
C1_InsertAddsOne ==
    \A r \in Regions, v \in Vals :
        Fits(r) =>
            LET q == insert(Self, r[1], r[2], v)
            IN  /\ len(q) = len(Self) + 1
                /\ <<r, v>> \in ItemsOf(IterOf(q))
                /\ <<r, v>> \in ItemsOf(QueryOf(q, r))

\* An insert that fits has just stored the second entry, and iter() yields it.
C1_Witness ==
    /\ lastOp = Op("insert", <<TRUE>>)
    /\ len(Self) = 2
    /\ (gen - 1) \in DOMAIN store
    /\ Fits(Entry(Self, gen - 1)[1])
    /\ Entry(Self, gen - 1) \in ItemsOf(IterOf(Self))

\* C2: query(anchor, size), consumed to exhaustion, yields every stored entry
\* whose region shares a cell with the query region, whichever node keeps it.
C2_QueryComplete ==
    \A r \in Regions :
        \A h \in DOMAIN store :
            Overlaps(Entry(Self, h)[1], r) =>
                /\ h \in Range(UuidsOf(QueryOf(Self, r)))
                /\ Entry(Self, h) \in ItemsOf(QueryOf(Self, r))

\* A query region that cuts through an entry kept at the root (neither holds
\* the other) and also meets an entry kept below the root; both are yielded.
C2_Witness ==
    \E r \in Regions, h \in DOMAIN store, k \in DOMAIN store :
        /\ KeptAt(Self, h) = {<<>>}
        /\ Overlaps(Entry(Self, h)[1], r)
        /\ ~(CellsOf(Entry(Self, h)[1]) \subseteq CellsOf(r))
        /\ ~(CellsOf(r) \subseteq CellsOf(Entry(Self, h)[1]))
        /\ KeptAt(Self, k) # {<<>>}
        /\ Overlaps(Entry(Self, k)[1], r)
        /\ Range(UuidsOf(QueryOf(Self, r))) = {h, k}

\* C3: query(anchor, size) yields no entry whose stored region shares no cell
\* with the query region; what it yields is the stored pair of a handle.
C3_QuerySound ==
    \A r \in Regions :
        LET outs == QueryOf(Self, r)
        IN  \A i \in 1..Len(outs) :
                /\ outs[i].tag = "Some"
                /\ outs[i].uuid \in DOMAIN store
                /\ outs[i].item = Entry(Self, outs[i].uuid)
                /\ Overlaps(outs[i].item[1], r)

\* An entry kept at the root, disjoint from a query region inside the root,
\* is left out while another entry is yielded.
C3_Witness ==
    \E r \in Regions, h \in DOMAIN store :
        /\ Fits(r)
        /\ KeptAt(Self, h) = {<<>>}
        /\ ~Overlaps(Entry(Self, h)[1], r)
        /\ Len(QueryOf(Self, r)) = 1
        /\ h \notin Range(UuidsOf(QueryOf(Self, r)))

C5_InsertQueryRoundTrip ==
    \A r \in Regions, v \in Vals :
        Fits(r) =>
            LET q == insert(Self, r[1], r[2], v)
                outs == QueryOf(q, r)
                us == UuidsOf(outs)
            IN  /\ Count(us, gen) = 1
                /\ \A i \in 1..Len(outs) : us[i] = gen => outs[i].item = <<r, v>>
                /\ \A h \in DOMAIN q.store : Count(us, h) <= 1

\* The entry just inserted sits below the root, an older entry kept at the root
\* is disjoint from it, and the query over the new region yields only the new one.
C5_Witness ==
    /\ lastOp = Op("insert", <<TRUE>>)
    /\ DOMAIN store = {1, 2}
    /\ gen = 3
    /\ KeptAt(Self, 1) = {<<>>}
    /\ KeptAt(Self, 2) # {<<>>}
    /\ ~Overlaps(Entry(Self, 1)[1], Entry(Self, 2)[1])
    /\ UuidsOf(QueryOf(Self, Entry(Self, 2)[1])) = <<2>>

\* C6: in every state iter(), consumed to exhaustion, yields every entry of
\* the store exactly once, so it yields len() items; regions() and values()
\* yield the regions and the values of the same entries in the same order.
C6_IterYieldsAll ==
    LET outs == IterOf(Self)
        rs == Regions_all(Self, iter(Self))
        vs == Values_all(Self, iter(Self))
    IN  /\ Len(outs) = len(Self)
        /\ \A i \in 1..Len(outs) :
              /\ outs[i].tag = "Some"
              /\ outs[i].item = Entry(Self, outs[i].uuid)
        /\ \A h \in DOMAIN store : Count(UuidsOf(outs), h) = 1
        /\ Len(rs) = Len(outs) /\ Len(vs) = Len(outs)
        /\ \A i \in 1..Len(outs) :
              /\ rs[i].tag = "Some" /\ rs[i].item = outs[i].item[1]
              /\ vs[i].tag = "Some" /\ vs[i].item = outs[i].item[2]

\* Two entries kept at different nodes, after a modify: iter() yields both.
C6_Witness ==
    /\ lastOp.op = "modify"
    /\ DOMAIN store = {1, 2}
    /\ KeptAt(Self, 1) # KeptAt(Self, 2)
    /\ Range(UuidsOf(IterOf(Self))) = {1, 2}

\* C7: in every state reset() leaves is_empty() true and len() zero, and an
\* iter() or query() started after it yields nothing.
C7_ResetEmpties ==
    LET q == reset(Self)
    IN  /\ is_empty(q)
        /\ len(q) = 0
        /\ IterOf(q) = <<>>
        /\ \A r \in Regions : QueryOf(q, r) = <<>>
        /\ lastOp.op = "reset" => (is_empty(Self) /\ IterOf(Self) = <<>>)

\* A reset has just discarded two entries.
C7_Witness ==
    /\ lastOp.op = "reset"
    /\ gen > 2
    /\ is_empty(Self)
    /\ IterOf(Self) = <<>>

\* The rectangles contains() is probed with: anchors from one cell before the
\* root to one cell past its far edge; sizes of a cell, of two cells either
\* way, of the root, and of the root widened or heightened by one.
ProbeCoords == 0..(x(RootAnchor) + Pow2(MaxDepth) + 1)
ProbeSizes ==
    {<<1, 1>>, <<2, 1>>, <<1, 2>>,
     <<Pow2(depth), Pow2(depth)>>,
     <<Pow2(depth) + 1, Pow2(depth)>>,
     <<Pow2(depth), Pow2(depth) + 1>>}

\* [an, an + size) lies within [RootAnchor, RootAnchor + (2^depth, 2^depth)).
InRoot(an, size) ==
    /\ x(RootAnchor) <= x(an) /\ x(an) + size[1] <= x(RootAnchor) + Pow2(depth)
    /\ y(RootAnchor) <= y(an) /\ y(an) + size[2] <= y(RootAnchor) + Pow2(depth)

\* C8: contains(anchor, size) is true exactly when the rectangle lies fully
\* within the root square; the root region contains itself, and a rectangle
\* sticking out on any side, or touching the root from outside, is not contained.
C8_ContainsIffWithinRoot ==
    /\ \A self \in {Self} :
          \A an \in ProbeCoords \X ProbeCoords, size \in ProbeSizes :
              contains(self, an, size) <=> InRoot(an, size)
    /\ contains(Self, anchor(Self), <<qt_width(Self), qt_height(Self)>>)
    /\ anchor(Self) = RootAnchor
    /\ qt_width(Self) = Pow2(depth) /\ qt_height(Self) = Pow2(depth)

\* A quadtree holding entries contains its own region and an inner cell, but
\* not the cells touching it from the west, north, east and south, nor a
\* rectangle one wider than itself.
C8_Witness ==
    /\ depth = MaxDepth
    /\ ~is_empty(Self)
    /\ contains(Self, RootAnchor, <<Pow2(depth), Pow2(depth)>>)
    /\ contains(Self, add(RootAnchor, <<1, 1>>), <<1, 1>>)
    /\ ~contains(Self, <<x(RootAnchor) - 1, y(RootAnchor)>>, <<1, 1>>)
    /\ ~contains(Self, <<x(RootAnchor), y(RootAnchor) - 1>>, <<1, 1>>)
    /\ ~contains(Self, <<x(RootAnchor) + Pow2(depth), y(RootAnchor)>>, <<1, 1>>)
    /\ ~contains(Self, <<x(RootAnchor), y(RootAnchor) + Pow2(depth)>>, <<1, 1>>)
    /\ ~contains(Self, RootAnchor, <<Pow2(depth) + 1, Pow2(depth)>>)

\* C9: a modify, modify_pt or modify_all step changes only values: the index
\* (which node keeps which handle, which nodes have children) is the same, the
\* handles of the store and len() are the same, every stored region is the same.
C9_ModifyKeepsPlacement ==
    [][lastOp'.op = "modify" =>
          /\ inner' = inner
          /\ DOMAIN store' = DOMAIN store
          /\ Cardinality(DOMAIN store') = Cardinality(DOMAIN store)
          /\ \A h \in DOMAIN store : store'[h][1] = store[h][1]
          /\ depth' = depth]_vars

\* A modify has just changed the value of the first of two entries kept at
\* different nodes, and they are still kept there.
C9_Witness ==
    /\ lastOp = Op("modify", <<TRUE, FALSE>>)
    /\ DOMAIN store = {1, 2}
    /\ KeptAt(Self, 1) # KeptAt(Self, 2)
    /\ Cardinality(KeptAt(Self, 1)) = 1
    /\ Cardinality(KeptAt(Self, 2)) = 1

\* C10: modify(anchor, size, f) applies f exactly once to the value of every
\* entry whose region shares a cell with the given region and to no other
\* value; modify_pt does so for the cell at the point; modify_all applies f
\* exactly once to every value.
C10_ModifyAppliesOnce ==
    /\ \A r \in Regions :
          LET q == modify(Self, r[1], r[2], Inc)
          IN  \A h \in DOMAIN store :
                  q.store[h][2] = IF Overlaps(Entry(Self, h)[1], r)
                                  THEN Inc[store[h][2]]
                                  ELSE store[h][2]
    /\ \A p \in Points :
          LET q == modify_pt(Self, p, Inc)
          IN  \A h \in DOMAIN store :
                  q.store[h][2] = IF p \in CellsOf(Entry(Self, h)[1])
                                  THEN Inc[store[h][2]]
                                  ELSE store[h][2]
    /\ LET q == modify_all(Self, Inc)
       IN  \A h \in DOMAIN store : q.store[h][2] = Inc[store[h][2]]

\* A modify has just met the region of the second entry only: its value is
\* one more than the value it was inserted with, the first entry's is not.
C10_Witness ==
    /\ lastOp = Op("modify", <<FALSE, TRUE>>)
    /\ DOMAIN store = {1, 2}
    /\ store[1][2] = 0
    /\ store[2][2] = 1

\* C11: a consuming iteration yields the stored (region, value) pair of every
\* handle of the store exactly once and removes it from the owned store as it
\* is yielded; it never fails, and when next() returns the end marker the owned
\* store is empty and len() entries have been yielded.
C11_IntoIterYieldsAll ==
    into_iter # None =>
        LET us == UuidsOf(yielded)
        IN  /\ lastOp # Op("next", <<"Panic">>)
            /\ \A h \in DOMAIN store : Count(us, h) <= 1
            /\ Range(us) \cup DOMAIN into_iter.store = DOMAIN store
            /\ Range(us) \cap DOMAIN into_iter.store = {}
            /\ \A i \in 1..Len(yielded) : yielded[i].item = Entry(Self, us[i])
            /\ \A h \in DOMAIN into_iter.store : into_iter.store[h] = store[h]
            /\ lastOp = Op("next", <<"None">>) =>
                  /\ into_iter.store = <<>>
                  /\ Len(yielded) = len(Self)

\* A consuming iteration over two entries kept at different nodes has ended.
C11_Witness ==
    /\ into_iter # None
    /\ lastOp = Op("next", <<"None">>)
    /\ DOMAIN store = {1, 2}
    /\ KeptAt(Self, 1) # KeptAt(Self, 2)
    /\ Len(yielded) = 2
    /\ into_iter.store = <<>>

\* The number of entries next() will still yield from it.
RECURSIVE StillYields(_)
StillYields(it) ==
    LET r == CHOOSE o \in IntoIter_next(it) : TRUE
    IN  IF r.out.tag = "Some" THEN 1 + StillYields(r.it) ELSE 0

\* C12: at every step of a consuming iteration size_hint() is exact: remaining
\* is the number of entries next() will still yield, it is the size of the
\* store less one per entry yielded so far, the decrement never underflows
\* (no panic, no wrap-around), and remaining is zero exactly when next()
\* returns the end marker.
C12_SizeHintExact ==
    into_iter # None =>
        /\ lastOp # Op("next", <<"Panic">>)
        /\ size_hint(into_iter) =
              <<StillYields(into_iter), [tag |-> "Some", v |-> StillYields(into_iter)]>>
        /\ into_iter.remaining = len(Self) - Len(yielded)
        /\ into_iter.remaining = Cardinality(DOMAIN into_iter.store)
        /\ \A r \in IntoIter_next(into_iter) :
              (r.out.tag = "None") <=> (into_iter.remaining = 0)
        /\ lastOp = Op("next", <<"None">>) => into_iter.remaining = 0

\* Half-way through a consuming iteration over two entries: one yielded, one
\* remaining.
C12_Witness ==
    /\ into_iter # None
    /\ lastOp = Op("next", <<"Some">>)
    /\ len(Self) = 2
    /\ Len(yielded) = 1
    /\ size_hint(into_iter) = <<1, [tag |-> "Some", v |-> 1]>>

\* C13: for all valid rectangles a and b of the bounded range whose far edges
\* U can hold, a.contains(b) implies a.intersects(b), a.intersects(b) equals
\* b.intersects(a), and a.intersects(b) is true exactly when the half-open
\* rectangles share a coordinate cell, so rectangles that only touch along an
\* edge or at a corner do not intersect.
C13_ContainsImpliesIntersects ==
    (call # None /\ call.fn \in {"contains", "intersects"}) =>
        LET a == call.args[1]
            b == call.args[2]
        IN  (~far_overflows(a) /\ ~far_overflows(b)) =>
                /\ call.out.tag = "Ok"
                /\ call.fn = "contains" =>
                      /\ call.out.v = (CellsOf(AreaInner(b)) \subseteq CellsOf(AreaInner(a)))
                      /\ call.out.v => Area_intersects(a, b)
                /\ call.fn = "intersects" =>
                      /\ call.out.v = Overlaps(AreaInner(a), AreaInner(b))
                      /\ call.out.v = Area_intersects(b, a)

\* intersects has been called on two cells touching along an edge and on two
\* touching at a corner, and has returned false.
C13_Witness ==
    /\ call # None
    /\ call.fn = "intersects"
    /\ call.args[1] = AreaFrom(<<<<0, 0>>, <<1, 1>>>>)
    /\ call.args[2] \in {AreaFrom(<<<<1, 0>>, <<1, 1>>>>), AreaFrom(<<<<1, 1>>, <<1, 1>>>>)}
    /\ call.out = Ok(FALSE)

Quadrants == {"Northeast", "Northwest", "Southeast", "Southwest"}

C15_NoFarEdgeOverflow ==
    (call # None /\ call.fn \in {"contains", "intersects"}) =>
        LET a == AreaInner(call.args[1])
            b == AreaInner(call.args[2])
        IN  /\ call.out.tag = "Ok"
            /\ call.fn = "contains" => call.out.v = (CellsOf(b) \subseteq CellsOf(a))
            /\ call.fn = "intersects" => call.out.v = Overlaps(a, b)

\* C16: Point + Point and Point - Point are component-wise and undo each
\* other: whenever p + q is representable, it is the component-wise sum and
\* (p + q) - q is p; whenever p - q is representable, it is the
\* component-wise difference, negative components included, and (p - q) + q
\* is p; (0, 0) - (1, 1) is (-1, -1).
C16_AddSubInverse ==
    /\ (call # None /\ call.fn = "add") =>
          LET p == call.args[1]
              q == call.args[2]
          IN  ~add_overflows(p, q) =>
                  /\ call.out = Ok(<<x(p) + x(q), y(p) + y(q)>>)
                  /\ ~sub_overflows(call.out.v, q)
                  /\ sub(call.out.v, q) = p
    /\ (call # None /\ call.fn = "sub") =>
          LET p == call.args[1]
              q == call.args[2]
          IN  /\ ~sub_overflows(p, q) =>
                    /\ call.out = Ok(<<x(p) - x(q), y(p) - y(q)>>)
                    /\ ~add_overflows(call.out.v, q)
                    /\ add(call.out.v, q) = p
              /\ (p = <<0, 0>> /\ q = <<1, 1>>) => call.out = Ok(<<0 - 1, 0 - 1>>)

\* (0, 0) - (1, 1) has been computed.
C16_Witness ==
    /\ call # None
    /\ call.fn = "sub"
    /\ call.args = <<<<0, 0>>, <<1, 1>>>>
    /\ call.out = Ok(<<0 - 1, 0 - 1>>)

\* The handles kept anywhere in the index, and whether a consuming iteration
\* from it can fail.
KeptHandles(self) == UNION {Range(self.inner[p].kept_uuids) : p \in DOMAIN self.inner}

RECURSIVE IntoIterFails(_)
IntoIterFails(it) ==
    \E r \in IntoIter_next(it) :
        \/ r.out.tag = "Panic"
        \/ r.out.tag = "Some" /\ IntoIterFails(r.it)

\* C17: in every state reached by new, insert, insert_pt, extend, modify* and
\* reset the handles kept in the index are exactly the keys of the store; so
\* Iter::next and IntoIter::next never fail their expect(), and the traversal
\* under Query::next and modify_region hands out only handles of the store.
C17_IndexStoreConsistent ==
    /\ KeptHandles(Self) = DOMAIN store
    /\ \A i \in 1..Len(IterOf(Self)) : IterOf(Self)[i].tag = "Some"
    /\ ~IntoIterFails(into_iter_of(Self))
    /\ Range(UuidIter_collect(inner, UuidIter_new(inner))) \subseteq DOMAIN store

\* After a reset discarded the first handle, a later insert stored the second:
\* the index keeps it and nothing else.
C17_Witness ==
    /\ lastOp = Op("insert", <<TRUE>>)
    /\ gen = 3
    /\ DOMAIN store = {2}
    /\ KeptHandles(Self) = {2}
    /\ Len(IterOf(Self)) = 1

\* C18: every handle of the store is kept by exactly one node of the index,
\* and occurs there once.
C18_UniquePlacement ==
    \A h \in DOMAIN store :
        /\ Cardinality(KeptAt(Self, h)) = 1
        /\ \A p \in KeptAt(Self, h) : Count(inner[p].kept_uuids, h) = 1

\* Two handles with the same region, kept side by side by one node below the
\* root.
C18_Witness ==
    /\ lastOp = Op("insert", <<TRUE>>)
    /\ DOMAIN store = {1, 2}
    /\ store[1][1] = store[2][1]
    /\ KeptAt(Self, 1) = KeptAt(Self, 2)
    /\ KeptAt(Self, 1) # {<<>>}
    /\ Cardinality(KeptAt(Self, 1)) = 1

\* The cells of the four quarters of the rectangle r of an AreaType, r having
\* even dimensions.
QuarterCells(r) ==
    LET hw == r[2][1] \div 2
        hh == r[2][2] \div 2
    IN  {CellsOf(<<<<r[1][1] + i * hw, r[1][2] + j * hh>>, <<hw, hh>>>>) :
            i \in {0, 1}, j \in {0, 1}}

\* Every stored handle is kept by a node whose region wholly contains its
\* stored region, at remaining depth 0 or where no quarter of the node's
\* region wholly contains it.
Placed ==
    \A h \in DOMAIN store :
        \A p \in KeptAt(Self, h) :
            LET r == AreaInner(store[h][1])
                node == inner[p]
            IN  /\ CellsOf(r) \subseteq CellsOf(AreaInner(node.region))
                /\ \/ node.depth = 0
                   \/ \A quarter \in QuarterCells(AreaInner(node.region)) :
                          ~(CellsOf(r) \subseteq quarter)

\* A step moves no handle that stays in the store and changes no stored region.
Unmoved ==
    \A h \in DOMAIN store \cap DOMAIN store' :
        /\ {p \in DOMAIN inner' : h \in Range(inner'[p].kept_uuids)} = KeptAt(Self, h)
        /\ store'[h][1] = store[h][1]

\* C19: for every stored handle the node that keeps it has a region wholly
\* containing the stored region, and either that node has remaining depth 0 or
\* none of its four quarters wholly contains the stored region (a region
\* overlapping a quarter without lying inside it stays at the parent); and no
\* step moves a handle once placed.
C19_PlacementPolicy == []Placed /\ [][Unmoved]_vars

\* One entry spans two quarters of the root and is kept there, the other went
\* down to a node of remaining depth 0, and an insert has just added it
\* without moving the first.
C19_Witness ==
    /\ lastOp = Op("insert", <<TRUE>>)
    /\ depth = MaxDepth
    /\ DOMAIN store = {1, 2}
    /\ KeptAt(Self, 1) = {<<>>}
    /\ \E quarter \in QuarterCells(AreaInner(inner[<<>>].region)) :
          /\ CellsOf(Entry(Self, 1)[1]) \cap quarter # {}
          /\ ~(CellsOf(Entry(Self, 1)[1]) \subseteq quarter)
    /\ \E p \in KeptAt(Self, 2) : inner[p].depth = 0 /\ Len(p) = MaxDepth

\* The children of node p that the index holds, and the nodes at or below p.
ChildrenOf(self, p) == {q \in DOMAIN self.inner : Len(q) = Len(p) + 1 /\ Front(q) = p}
Below(self, p) == {q \in DOMAIN self.inner :
                      Len(q) >= Len(p) /\ SubSeq(q, 1, Len(p)) = p}

\* C20: a node with children has exactly four, each of remaining depth one
\* less, of equal size, pairwise disjoint and together covering exactly the
\* node's region, so that at most one child wholly contains any region; a node
\* of remaining depth 0 has no children, a node without children has none in
\* the index, and a node has children only if an insertion came by: a handle
\* is kept at it or below it.
C20_Quartering ==
    \A p \in DOMAIN inner :
        LET node == inner[p]
            kids == ChildrenOf(Self, p)
            cells(q) == CellsOf(AreaInner(inner[q].region))
        IN  /\ qt_depth(Self) = depth
            /\ node.depth = qt_depth(Self) - Len(p)
            /\ node.depth = 0 => ~node.subquadrants
            /\ ~node.subquadrants => kids = {}
            /\ node.subquadrants =>
                  /\ kids = {Append(p, i) : i \in 1..4}
                  /\ Cardinality(kids) = 4
                  /\ \A q \in kids :
                        /\ inner[q].depth = node.depth - 1
                        /\ 2 * width(inner[q].region) = width(node.region)
                        /\ 2 * height(inner[q].region) = height(node.region)
                  /\ \A q \in kids, q2 \in kids : q # q2 => cells(q) \cap cells(q2) = {}
                  /\ UNION {cells(q) : q \in kids} = cells(p)
                  /\ {cells(q) : q \in kids} = QuarterCells(AreaInner(node.region))
                  /\ \A r \in Regions :
                        Cardinality({q \in kids : CellsOf(r) \subseteq cells(q)}) <= 1
                  /\ \E q \in Below(Self, p) : inner[q].kept_uuids # <<>>

\* The root and one of its children have both been quartered, and a handle is
\* kept at remaining depth 0.
C20_Witness ==
    /\ depth = MaxDepth
    /\ inner[<<>>].subquadrants
    /\ \E q \in ChildrenOf(Self, <<>>) :
          /\ inner[q].subquadrants
          /\ Cardinality(ChildrenOf(Self, q)) = 4
          /\ \E g \in ChildrenOf(Self, q) : inner[g].kept_uuids # <<>>
    /\ \E q \in ChildrenOf(Self, <<>>) : ~inner[q].subquadrants

\* ---------------------------------------------------------------------------
\* The vocabulary of the traversal by handle.
\* ---------------------------------------------------------------------------
\* The stored region of handle h shares a cell with region r.
Touches(h, r) == Overlaps(AreaInner(store[h][1]), AreaInner(r))

\* next() has returned the end marker.
Exhausted == handle_iter # None /\ lastOp = Op("next", <<"None">>)

\* query_optimization was called with this method and returned.
Optimized(traversal_method) ==
    /\ handle_iter # None
    /\ call # None
    /\ call.out = "Ok"
    /\ call.args[2] = traversal_method

\* Everything next() yields from it until the end marker.
RECURSIVE HandleIter_all(_, _)
HandleIter_all(t, it) ==
    LET r == HandleIter_next(t, it)
    IN  IF r.out.tag = "None" THEN <<>>
        ELSE <<r.out.handle>> \o HandleIter_all(t, r.it)

\* C21: once a traversal that began with query_optimization(req,
\* Traversal::Overlapping), req inside search_area, has ended, the yielded
\* handles whose stored region intersects req are those an iterator without
\* the descent yields over the same search_area, filtered the same way, and
\* they are all the handles of the store whose region intersects req.
C21_OptimizedEqualsNaive ==
    (Exhausted /\ Optimized("Overlapping")) =>
        LET req == call.args[1]
            naive == HandleIter_all(inner, HandleIter_new(<<>>, handle_iter.search_area))
            optimized == {h \in Range(yielded) : Touches(h, req)}
        IN  /\ Area_contains(handle_iter.search_area, req)
            /\ optimized = {h \in Range(naive) : Touches(h, req)}
            /\ optimized = {h \in DOMAIN store : Touches(h, req)}

\* The descent went two levels down to a cell; the traversal has ended and has
\* yielded an entry kept at the root and an entry kept at the cell, both
\* intersecting the request.
C21_Witness ==
    /\ Exhausted
    /\ Optimized("Overlapping")
    /\ call.args[1] = AreaFrom(<<<<1, 1>>, <<1, 1>>>>)
    /\ DOMAIN store = {1, 2}
    /\ \E h, k \in DOMAIN store :
          /\ KeptAt(Self, h) = {<<>>}
          /\ \E p \in KeptAt(Self, k) : Len(p) = 2
          /\ Touches(h, call.args[1])
          /\ Touches(k, call.args[1])
    /\ Range(yielded) = {1, 2}

\* query_optimization has just returned.
Descended == handle_iter # None /\ lastOp = Op("query_optimization", <<"Ok">>)

\* C22: when query_optimization(req, Traversal::Overlapping) returns, every
\* handle it collected into handle_stack has a stored region that intersects
\* req.
C22_CollectedIntersect ==
    (Descended /\ Optimized("Overlapping")) =>
        \A h \in Range(handle_iter.handle_stack) : Touches(h, call.args[1])

\* Region r lies wholly inside the region of node p.
Encloses(p, r) == CellsOf(AreaInner(r)) \subseteq CellsOf(AreaInner(inner[p].region))

\* C23: when query_optimization(req, _) returns, qt_stack holds exactly one
\* node. If the root region contains req, that node's region contains req,
\* none of its children's does, and every node enclosing req is that node or
\* an ancestor of it; otherwise the node is the root.
C23_DescentTarget ==
    (Descended /\ call # None) =>
        LET req == call.args[1]
        IN  /\ Len(handle_iter.qt_stack) = 1
            /\ LET qt == handle_iter.qt_stack[1]
               IN  IF Encloses(<<>>, req)
                   THEN /\ Encloses(qt, req)
                        /\ \A sq \in ChildrenOf(Self, qt) : ~Encloses(sq, req)
                        /\ \A p \in DOMAIN inner :
                              Encloses(p, req) => p = SubSeq(qt, 1, Len(p))
                   ELSE qt = <<>>

\* The descent went two levels down, to a node without children.
C23_Witness ==
    /\ Descended
    /\ call # None
    /\ Len(handle_iter.qt_stack) = 1
    /\ Len(handle_iter.qt_stack[1]) = 2
    /\ Encloses(handle_iter.qt_stack[1], call.args[1])
    /\ ChildrenOf(Self, handle_iter.qt_stack[1]) = {}

\* The coming next() takes exactly the node at the front of qt_stack: nothing
\* is buffered and that node keeps a handle not yet seen.
PopsNode ==
    /\ handle_iter # None
    /\ handle_iter.handle_stack = <<>>
    /\ handle_iter.qt_stack # <<>>
    /\ Range(inner[Head(handle_iter.qt_stack)].kept_uuids) # {}
    /\ Range(inner[Head(handle_iter.qt_stack)].kept_uuids) \cap handle_iter.visited = {}

\* The children of node p whose region shares a cell with region r.
ChildrenTouching(p, r) ==
    {sq \in ChildrenOf(Self, p) : Overlaps(AreaInner(inner[sq].region), AreaInner(r))}

\* What a next() that takes one node does: the node leaves qt_stack, the
\* children in pushed join it at the back, and each of the node's handles is
\* yielded or waits in handle_stack.
Visits(pushed) ==
    LET qt == Head(handle_iter.qt_stack)
        before == Tail(handle_iter.qt_stack)
        after == handle_iter'.qt_stack
    IN  /\ Len(after) = Len(before) + Cardinality(pushed)
        /\ SubSeq(after, 1, Len(before)) = before
        /\ {after[i] : i \in (Len(before) + 1)..Len(after)} = pushed
        /\ yielded' = Append(yielded, inner[qt].kept_uuids[1])
        /\ Range(inner[qt].kept_uuids) =
               {inner[qt].kept_uuids[1]} \cup Range(handle_iter'.handle_stack)
        /\ handle_iter'.visited = handle_iter.visited \cup {inner[qt].kept_uuids[1]}

C25_PruningLossless ==
    (Exhausted /\ call = None) =>
        {h \in DOMAIN store : Touches(h, handle_iter.search_area)} \subseteq Range(yielded)

\* A traversal without descent has ended: the entry below the root that
\* intersects the search area was yielded, the entry that lies in a pruned
\* subquadrant was not.
C25_Witness ==
    /\ Exhausted
    /\ call = None
    /\ DOMAIN store = {1, 2}
    /\ \E h, k \in DOMAIN store :
          /\ Range(yielded) = {h}
          /\ Touches(h, handle_iter.search_area)
          /\ \E p \in KeptAt(Self, h) : Len(p) = 2
          /\ \E p \in KeptAt(Self, k) : p # <<>>

\* The handles the rest of the traversal comes by, in order, seen or not:
\* those waiting in handle_stack, then those of every node it walks.
RECURSIVE Reaches(_, _)
Reaches(t, it) ==
    IF it.handle_stack # <<>>
    THEN it.handle_stack \o Reaches(t, [it EXCEPT !.handle_stack = <<>>])
    ELSE IF it.qt_stack # <<>>
    THEN LET qt == Head(it.qt_stack)
             wanted(sq) == Overlaps(AreaInner(t[sq].region), AreaInner(it.search_area))
             kids == SelectSeq([i \in 1..Cardinality({q \in DOMAIN t : Len(q) = Len(qt) + 1
                                                      /\ Front(q) = qt}) |-> Append(qt, i)],
                               wanted)
         IN  t[qt].kept_uuids \o Reaches(t, [it EXCEPT !.qt_stack = Tail(@) \o kids])
    ELSE <<>>

\* Some handle is come by twice.
Twice(hs) == \E h \in Range(hs) : Count(hs, h) > 1

\* C26 as stated: there are a quadtree made by inserts, the present one or any
\* other, and a query region for which the traversal after
\* query_optimization(req, Traversal::Overlapping) comes by a handle twice,
\* once buffered and once in the walk.
C26_DedupRequired ==
    \E q \in FilledQuadtrees \cup {Self}, search_area \in QueryRegions :
        \E req \in Requests(search_area) :
            LET r == query_optimization(q.inner, HandleIter_new(<<>>, search_area),
                                        req, "Overlapping")
            IN  r.tag = "Ok" /\ Twice(Reaches(q.inner, r.it))

\* C26: in every state of a traversal, after a descent or without one, the
\* handles yielded so far and those the rest of the traversal comes by hold no
\* handle twice: the handles buffered by the descent are never met again in
\* the walk, and visited never turns a handle down.
C26_NeverReachedTwice ==
    (handle_iter # None /\ lastOp # Op("query_optimization", <<"Panic">>)) =>
        /\ ~Twice(yielded \o Reaches(inner, handle_iter))
        /\ handle_iter.visited = Range(yielded)

\* The descent has buffered a handle kept at the root and stopped at a node
\* that keeps another handle, which the walk will come by.
C26_Witness ==
    /\ Descended
    /\ Optimized("Overlapping")
    /\ DOMAIN store = {1, 2}
    /\ Len(handle_iter.handle_stack) = 1
    /\ KeptAt(Self, handle_iter.handle_stack[1]) = {<<>>}
    /\ handle_iter.qt_stack # <<<<>>>>
    /\ Len(Reaches(inner, handle_iter)) = 2

\* C27: in every state of a traversal, with a query_optimization of either
\* method before it or without one, no handle occurs twice among the handles
\* next() has returned so far, and each of them is in visited.
C27_NoHandleTwice ==
    handle_iter # None =>
        /\ \A i, j \in 1..Len(yielded) : yielded[i] = yielded[j] => i = j
        /\ Range(yielded) \subseteq handle_iter.visited
        /\ Range(yielded) \subseteq DOMAIN store

\* After query_optimization(req, Traversal::Strict) next() has returned two
\* handles, one from a node with a single handle and one from a node below.
C27_Witness ==
    /\ Optimized("Strict")
    /\ lastOp = Op("next", <<"Some">>)
    /\ Len(yielded) = 2
    /\ yielded[1] # yielded[2]
    /\ KeptAt(Self, yielded[1]) # KeptAt(Self, yielded[2])
    /\ handle_iter.visited = {1, 2}

\* The iterator is as HandleIter::new made it: next() was not yet called.
JustCreated ==
    /\ handle_iter # None
    /\ handle_iter = HandleIter_new(<<>>, handle_iter.search_area)

\* C28: a query_optimization called on an iterator that was just created
\* fails none of its assertions, at entry or at any level of the descent, for
\* every quadtree, request and method: it returns, with one node in qt_stack
\* and visited still empty.
C28_AssertionsHold ==
    [][(JustCreated /\ lastOp'.op = "query_optimization") =>
          /\ lastOp' = Op("query_optimization", <<"Ok">>)
          /\ call'.out = "Ok"
          /\ Len(handle_iter'.qt_stack) = 1
          /\ handle_iter'.visited = {}]_vars

\* A descent of two levels, each replacing the sole node by a child, has
\* returned from an iterator that was just created.
C28_Witness ==
    /\ Descended
    /\ call # None
    /\ call.out = "Ok"
    /\ yielded = <<>>
    /\ handle_iter.visited = {}
    /\ \E sq \in 1..4, ssq \in 1..4 : handle_iter.qt_stack = <<<<sq, ssq>>>>

\* The node that keeps the i-th yielded handle.
NodeOf(i) == CHOOSE p \in DOMAIN inner : yielded[i] \in Range(inner[p].kept_uuids)

\* Node p is a proper ancestor of node q.
Above(p, q) == Len(p) < Len(q) /\ SubSeq(q, 1, Len(p)) = p

\* Neither node is at or above the other.
Apart(p, q) == p # q /\ ~Above(p, q) /\ ~Above(q, p)

\* The child of the lowest common ancestor of p and q that p lies under is
\* pushed, and so taken, before the one q lies under.
SiblingFirst(p, q) ==
    LET d == CHOOSE k \in 1..Len(p) : p[k] # q[k] /\ SubSeq(p, 1, k - 1) = SubSeq(q, 1, k - 1)
    IN  p[d] < q[d]

\* C29 as stated: in a traversal without descent the handles kept at a node
\* are yielded before those kept at any of its descendants, and the handles
\* in the subtree of a child are all yielded before any handle in the subtree
\* of a sibling taken after it.
C29_PreOrder ==
    (handle_iter # None /\ call = None) =>
        \A i, j \in 1..Len(yielded) :
            i < j => /\ ~Above(NodeOf(j), NodeOf(i))
                     /\ Apart(NodeOf(i), NodeOf(j)) => SiblingFirst(NodeOf(i), NodeOf(j))

\* C29: the traversal is level by level. The handles kept at a node are
\* yielded before those kept at any node deeper in the tree, descendant or
\* not; the handles of two nodes of one level come in the order their nodes
\* were pushed, which is the order of their ancestors among their siblings.
C29_LevelOrder ==
    (handle_iter # None /\ call = None) =>
        \A i, j \in 1..Len(yielded) :
            i < j => /\ Len(NodeOf(i)) <= Len(NodeOf(j))
                     /\ ~Above(NodeOf(j), NodeOf(i))
                     /\ (Len(NodeOf(i)) = Len(NodeOf(j)) /\ NodeOf(i) # NodeOf(j)) =>
                            SiblingFirst(NodeOf(i), NodeOf(j))

\* A traversal without descent has yielded the handle kept at the second
\* child of the root and then the handle kept below the first child.
C29_Witness ==
    /\ handle_iter # None
    /\ call = None
    /\ Len(yielded) = 2
    /\ NodeOf(1) = <<2>>
    /\ Len(NodeOf(2)) = 2
    /\ NodeOf(2)[1] = 1

\* The nodes the walk can still take: those in qt_stack and all below them.
Pending(it) == UNION {Below(Self, p) : p \in Range(it.qt_stack)}

\* A call of HandleIter::next returns the end marker only with both qt_stack
\* and handle_stack empty, and always when it finds them so; a node that has
\* left qt_stack is out of the walk for good.
HandleIterStep ==
    (handle_iter # None /\ lastOp'.op = "next") =>
        /\ lastOp' = Op("next", <<"None">>) =>
              handle_iter'.qt_stack = <<>> /\ handle_iter'.handle_stack = <<>>
        /\ (handle_iter.qt_stack = <<>> /\ handle_iter.handle_stack = <<>>) =>
              lastOp' = Op("next", <<"None">>)
        /\ Pending(handle_iter') \subseteq Pending(handle_iter)
        /\ (Range(handle_iter.qt_stack) \ Range(handle_iter'.qt_stack))
               \cap Pending(handle_iter') = {}
        /\ Len(yielded') <= len(Self)

\* The same of IntoIter::next.
IntoIterStep ==
    (into_iter # None /\ lastOp'.op = "next") =>
        /\ lastOp' = Op("next", <<"None">>) =>
              into_iter'.qt_stack = <<>> /\ into_iter'.uuid_stack = <<>>
        /\ (into_iter.qt_stack = <<>> /\ into_iter.uuid_stack = <<>>) =>
              lastOp' = Op("next", <<"None">>)
        /\ Pending(into_iter') \subseteq Pending(into_iter)
        /\ (Range(into_iter.qt_stack) \ Range(into_iter'.qt_stack))
               \cap Pending(into_iter') = {}
        /\ Len(yielded') <= len(Self)

\* Iter and Query over the filled quadtree reach the end marker, after at most
\* len() items.
IterAndQueryEnd ==
    (handle_iter = None /\ into_iter = None) =>
        /\ Len(IterOf(Self)) <= len(Self)
        /\ \A r \in QueryRegions : Len(QueryOf(Self, AreaInner(r))) <= len(Self)

\* From here, next() called again and again returns the end marker after the
\* items still due, which with those yielded so far are at most len().
EndsWithin ==
    /\ (handle_iter # None /\ lastOp # Op("query_optimization", <<"Panic">>)) =>
          Len(yielded) + Len(HandleIter_all(inner, handle_iter)) <= len(Self)
    /\ (into_iter # None /\ lastOp # Op("next", <<"Panic">>)) =>
          Len(yielded) + StillYields(into_iter) <= len(Self)

\* C30: every traversal ends. From every state of a traversal, next() of
\* HandleIter (unless query_optimization failed an assertion) and of IntoIter,
\* called again and again, returns the end marker after finitely many items,
\* at most len() in all; it returns it only with the node stack and the buffer
\* of waiting handles both empty, and always when it finds them empty; no
\* node is taken from the node stack twice; Iter and Query end after at most
\* len() items.
C30_TraversalsEnd ==
    /\ [](IterAndQueryEnd /\ EndsWithin)
    /\ [][HandleIterStep /\ IntoIterStep]_vars

\* A traversal by handle over a quadtree with children has ended after
\* yielding two handles, with qt_stack and handle_stack empty.
C30_Witness ==
    /\ Exhausted
    /\ Len(yielded) = 2
    /\ inner[<<>>].subquadrants
    /\ handle_iter.qt_stack = <<>>
    /\ handle_iter.handle_stack = <<>>

\* The iterator in which next() has just returned the end marker.
RECURSIVE Iter_end(_, _)
Iter_end(self, it) ==
    LET r == Iter_next(self, it)
    IN  IF r.out.tag = "Some" THEN Iter_end(self, r.it) ELSE r.it

RECURSIVE Query_end(_, _)
Query_end(self, q) ==
    LET r == Query_next(self, q)
    IN  IF r.out.tag = "Some" THEN Query_end(self, r.it) ELSE r.it

\* next() has returned the end marker on the consuming iterator.
IntoExhausted == into_iter # None /\ lastOp = Op("next", <<"None">>)

\* Where next() has returned the end marker, the next call returns it again
\* and leaves the iterator as it is.
FusedNow ==
    /\ Exhausted =>
          HandleIter_next(inner, handle_iter) = [it |-> handle_iter, out |-> None]
    /\ IntoExhausted =>
          IntoIter_next(into_iter) = {[it |-> into_iter, out |-> None]}
    /\ (handle_iter = None /\ into_iter = None) =>
          /\ LET e == Iter_end(Self, iter(Self))
             IN  Iter_next(Self, e) = [it |-> e, out |-> None]
          /\ \A r \in QueryRegions :
                LET e == Query_end(Self, Query_new(r, inner))
                IN  Query_next(Self, e) = [it |-> e, out |-> None]

\* A next() after the end marker yields nothing and returns the end marker.
FusedStep ==
    (lastOp = Op("next", <<"None">>) /\ lastOp'.op = "next") =>
        /\ lastOp' = lastOp
        /\ yielded' = yielded
        /\ handle_iter' = handle_iter
        /\ into_iter' = into_iter

\* C31: all iterators are fused. Once next() has returned the end marker on
\* a HandleIter, Iter, Query or IntoIter, every later next() also returns the
\* end marker, yields no further handle or entry and leaves the iterator in
\* the state in which it returned the end marker.
C31_Fused ==
    /\ []FusedNow
    /\ [][FusedStep]_vars

\* A traversal by handle over a quadtree of two entries has returned the end
\* marker after yielding one handle, and next() would return it again.
C31_Witness ==
    /\ Exhausted
    /\ Len(yielded) = 1
    /\ len(Self) = 2
    /\ HandleIter_next(inner, handle_iter).out = None

\* A quadtree just created with self's anchor and depth. Handles are minted
\* at random, so its generator is taken to stand where self's does.
JustNew(self) ==
    [new_with_anchor(anchor(self), self.depth) EXCEPT !.gen = self.gen]

\* The index with the entry (region, value) in place of each kept handle.
Holding(self) ==
    [p \in DOMAIN self.inner |->
        [region |-> self.inner[p].region,
         depth |-> self.inner[p].depth,
         subquadrants |-> self.inner[p].subquadrants,
         kept |-> [i \in DOMAIN self.inner[p].kept_uuids |->
                      IF self.inner[p].kept_uuids[i] \in DOMAIN self.store
                      THEN self.store[self.inner[p].kept_uuids[i]]
                      ELSE None]]]

\* reset() of the quadtree as it is now gives the just-created quadtree.
ResetIsNew ==
    LET q == reset(Self)
        fresh == new_with_anchor(anchor(Self), depth)
    IN  /\ q = JustNew(Self)
        /\ q.depth = fresh.depth /\ q.inner = fresh.inner /\ q.store = fresh.store
        /\ DOMAIN q.inner = {<<>>}
        /\ ~q.inner[<<>>].subquadrants
        /\ q.inner[<<>>].kept_uuids = <<>>
        /\ anchor(q) = anchor(Self)
        /\ qt_width(q) = qt_width(Self)
        /\ qt_height(q) = qt_height(Self)
        /\ qt_depth(q) = qt_depth(Self)
        /\ \A r \in Regions, v \in Vals :
              LET a == insert(q, r[1], r[2], v)
                  b == insert(fresh, r[1], r[2], v)
              IN  /\ Holding(a) = Holding(b)
                  /\ len(a) = len(b)
                  /\ IterOf(a) = <<>> <=> IterOf(b) = <<>>

\* A reset() step leaves the just-created quadtree of the same anchor, width,
\* height and depth.
ResetStep ==
    lastOp'.op = "reset" =>
        /\ depth' = depth
        /\ inner' = new_with_anchor(anchor(Self), depth).inner
        /\ store' = new_with_anchor(anchor(Self), depth).store
        /\ anchor(Self)' = anchor(Self)
        /\ qt_width(Self)' = qt_width(Self)
        /\ qt_height(Self)' = qt_height(Self)
        /\ qt_depth(Self)' = qt_depth(Self)

\* C32: reset() returns the quadtree to its just-created state. After any
\* sequence of inserts and modifies, reset() leaves the quadtree that
\* new_with_anchor(anchor, depth) builds for its anchor and depth: the root
\* has no children and keeps no handle, anchor(), width(), height() and
\* depth() are as before the reset, and an insert after the reset places its
\* entry as on a fresh quadtree.
C32_ResetIsNew ==
    /\ []ResetIsNew
    /\ [][ResetStep]_vars

\* After a reset that discarded an entry, an insert has quartered the root
\* and placed its entry where a fresh quadtree places it.
C32_Witness ==
    /\ lastOp.op = "insert"
    /\ DOMAIN store = {2}
    /\ inner[<<>>].subquadrants
    /\ \E r \in Regions, v \in Vals :
          Holding(Self) = Holding(insert(new_with_anchor(anchor(Self), depth), r[1], r[2], v))

====
